---- MODULE Spec2Model ----
(***************************************************************************)
(* Model of the express-jobly backend: the partial-update SET builder      *)
(* (helpers/sql.js), the company and job WHERE builders and repositories   *)
(* (models/company.js, models/job.js), the authorization middleware        *)
(* (middleware/auth.js) and the job routes (routes/jobs.js).               *)
(*                                                                         *)
(* JavaScript values are tagged records [t, v].  A JavaScript string is a  *)
(* sequence of chunks: SQL text keeps the chunks of the template literal   *)
(* that built it (literal pieces and interpolated pieces), data strings    *)
(* are sequences of characters.  A placeholder "$n" is one chunk.          *)
(***************************************************************************)
EXTENDS Integers, Sequences, FiniteSets, TLC

VARIABLES
  companies,  \* rows of table companies
  jobs,       \* rows of table jobs
  jobSeq,     \* last value handed out by the serial sequence of jobs.id
  op,         \* name of the operation that ran last ("init" before any)
  args,       \* its arguments
  out,        \* its completion: a returned value or a thrown error
  sent,       \* the statements it sent to the store, in order
  trace,      \* the middleware and repository functions it entered, in order
  steps,      \* number of operations run so far
  pending,    \* calls of Company.create waiting to send their INSERT
  heap        \* the objects callers keep and hand to the builders

vars == <<companies, jobs, jobSeq, op, args, out, sent, trace, steps, pending, heap>>
store == <<companies, jobs, jobSeq>>

(***************************************************************************)
(* Bounds of the model.                                                    *)
(***************************************************************************)
MaxUpdateLen == 2   \* largest update map (number of keys)
MaxNum == 2         \* largest number supplied as a numeric criterion
MaxSteps == 1       \* repository calls or requests per run
MaxCreates == 2     \* calls of Company.create started per run

(***************************************************************************)
(* JavaScript values.                                                      *)
(***************************************************************************)
Undefined == [t |-> "undefined", v |-> 0]
Str(chunks) == [t |-> "string", v |-> chunks]
Num(n) == [t |-> "number", v |-> n]
Bool(b) == [t |-> "boolean", v |-> b]
Arr(elems) == [t |-> "array", v |-> elems]
Obj(fields) == [t |-> "object", v |-> fields]

\* if (x): undefined, "", 0, NaN and false are falsy
Truthy(x) ==
  CASE x.t = "undefined" -> FALSE
    [] x.t = "string" -> x.v # <<>>
    [] x.t = "number" -> x.v # 0
    [] x.t = "boolean" -> x.v
    [] x.t = "NaN" -> FALSE
    [] OTHER -> TRUE

\* o.name, and the destructuring { name } = o: undefined unless o is an
\* object that has the property
Prop(o, name) ==
  IF o.t = "object" /\ name \in DOMAIN o.v THEN o.v[name] ELSE Undefined

\* `${x}` inside a template literal
Interpolate(x) ==
  CASE x.t = "string" -> x.v
    [] x.t = "number" -> <<ToString(x.v)>>
    [] x.t = "undefined" -> <<"undefined">>
    [] OTHER -> <<"[object]">>

\* the chunk "$n"
Ph(n) == "$" \o ToString(n)

\* completions of a call
Return(value) == [kind |-> "return", value |-> value]
Throw(error) == [kind |-> "throw", value |-> [t |-> "error", v |-> error]]
Threw(c, error) == c.kind = "throw" /\ c.value.v = error

\* An object literal / update map keeps its keys in insertion order:
\* a sequence of [k, v] entries with distinct keys.
Keys(data) == [i \in 1..Len(data) |-> data[i].k]
Values(data) == [i \in 1..Len(data) |-> data[i].v]

\* Array.prototype.join on an array of strings
RECURSIVE Join(_, _)
Join(parts, sep) ==
  IF Len(parts) = 0 THEN <<>>
  ELSE IF Len(parts) = 1 THEN parts[1]
  ELSE parts[1] \o <<sep>> \o Join(Tail(parts), sep)

(***************************************************************************)
(* helpers/sql.js                                                          *)
(***************************************************************************)
\* members every object literal inherits, by name, with the text a template
\* literal renders them as
ObjectPrototype ==
  [constructor |-> "function Object() { [native code] }",
   toString |-> "function toString() { [native code] }"]

\* jsToSql[colName] || colName: the table's own entry unless it is empty,
\* else a member the table inherits under that name, else the key
ColumnName(jsToSql, colName) ==
  IF colName \in DOMAIN jsToSql /\ jsToSql[colName] # "" THEN jsToSql[colName]
  ELSE IF colName \in DOMAIN ObjectPrototype /\ colName \notin DOMAIN jsToSql
    THEN ObjectPrototype[colName]
  ELSE colName

\* mutant: the placeholder is the 0-based index
sqlForPartialUpdate_zeroBased(dataToUpdate, jsToSql) ==
  LET keys == Keys(dataToUpdate)
      cols == [idx \in 1..Len(keys) |->
                 <<"\"", ColumnName(jsToSql, keys[idx]), "\"=", Ph(idx - 1)>>]
  IN IF Len(keys) = 0 THEN Throw("BadRequestError")
     ELSE Return(Obj([setCols |-> Str(Join(cols, ", ")),
                      values |-> Arr(Values(dataToUpdate))]))

\* mutant: the values are listed in the reverse of the key order
sqlForPartialUpdate_reversedValues(dataToUpdate, jsToSql) ==
  LET keys == Keys(dataToUpdate)
      n == Len(keys)
      cols == [i \in 1..n |->
                 <<"\"", ColumnName(jsToSql, keys[i]), "\"=", Ph((i - 1) + 1)>>]
  IN IF n = 0 THEN Throw("BadRequestError")
     ELSE Return(Obj([setCols |-> Str(Join(cols, ", ")),
                      values |-> Arr([i \in 1..n |-> dataToUpdate[n + 1 - i].v])]))

\* mutant: an empty update map is not rejected
sqlForPartialUpdate_noEmptyCheck(dataToUpdate, jsToSql) ==
  LET keys == Keys(dataToUpdate)
      cols == [i \in 1..Len(keys) |->
                 <<"\"", ColumnName(jsToSql, keys[i]), "\"=", Ph((i - 1) + 1)>>]
  IN Return(Obj([setCols |-> Str(Join(cols, ", ")),
                 values |-> Arr(Values(dataToUpdate))]))

\* keys.map((colName, idx) => `"${...}"=$${idx + 1}`): position i of the
\* sequence is the 0-based idx = i - 1
sqlForPartialUpdate(dataToUpdate, jsToSql) ==
  LET keys == Keys(dataToUpdate)
      cols == [i \in 1..Len(keys) |->
                 <<"\"", ColumnName(jsToSql, keys[i]), "\"=", Ph((i - 1) + 1)>>]
  IN IF Len(keys) = 0 THEN Throw("BadRequestError")
     ELSE Return(Obj([setCols |-> Str(Join(cols, ", ")),
                      values |-> Arr(Values(dataToUpdate))]))

(***************************************************************************)
(* models/company.js and models/job.js: the WHERE builders                 *)
(***************************************************************************)
\* whereParts.push(`<predicate> $${whereParts.length + 1}`); values.push(value)
Push(acc, predicate, value) ==
  [whereParts |-> Append(acc.whereParts, <<predicate, Ph(Len(acc.whereParts) + 1)>>),
   values |-> Append(acc.values, value)]

NoParts == [whereParts |-> <<>>, values |-> <<>>]

\* `%${text}%`
Like(text) == Str(<<"%">> \o Interpolate(text) \o <<"%">>)

\* Company._whereClauseBuilder({ nameLike, minEmployees, maxEmployees })
CompanyWhereClauseBuilder(c) ==
  LET p1 == IF Truthy(c.nameLike)
              THEN Push(NoParts, "name ILIKE ", Like(c.nameLike)) ELSE NoParts
      p2 == IF Truthy(c.minEmployees)
              THEN Push(p1, "num_employees >= ", c.minEmployees) ELSE p1
      p3 == IF Truthy(c.maxEmployees)
              THEN Push(p2, "num_employees <= ", c.maxEmployees) ELSE p2
      where == IF Len(p3.whereParts) > 0
                 THEN Str(<<"WHERE ">> \o Join(p3.whereParts, " AND "))
                 ELSE Str(<<>>)
  IN IF (Truthy(c.minEmployees) /\ Truthy(c.maxEmployees))
          /\ c.minEmployees.v > c.maxEmployees.v
       THEN Throw("BadRequestError")
       ELSE Return(Obj([where |-> where, values |-> Arr(p3.values)]))

\* mutant: the salary bound is written into the predicate
JobWhereClauseBuilder_inlineSalary(c) ==
  LET p1 == IF Truthy(c.title)
              THEN Push(NoParts, "title ILIKE ", Like(c.title)) ELSE NoParts
      p2 == IF Truthy(c.minSalary)
              THEN [whereParts |-> Append(p1.whereParts,
                                          <<"salary >= ">> \o Interpolate(c.minSalary)),
                    values |-> p1.values]
              ELSE p1
      p3 == IF Truthy(c.hasEquity)
              THEN Push(p2, "equity > ", Num(0)) ELSE p2
  IN IF ~Truthy(c.title) /\ ~Truthy(c.minSalary) /\ ~Truthy(c.hasEquity)
       THEN Return(Str(<<>>))
       ELSE Return(Obj([where |-> Str(<<"WHERE ">> \o Join(p3.whereParts, " AND ")),
                        values |-> Arr(p3.values)]))

\* mutant: the equity predicate takes a fixed placeholder number
JobWhereClauseBuilder_fixedIndex(c) ==
  LET p1 == IF Truthy(c.title)
              THEN Push(NoParts, "title ILIKE ", Like(c.title)) ELSE NoParts
      p2 == IF Truthy(c.minSalary)
              THEN Push(p1, "salary >= ", c.minSalary) ELSE p1
      p3 == IF Truthy(c.hasEquity)
              THEN [whereParts |-> Append(p2.whereParts, <<"equity > ", Ph(3)>>),
                    values |-> Append(p2.values, Num(0))]
              ELSE p2
  IN IF ~Truthy(c.title) /\ ~Truthy(c.minSalary) /\ ~Truthy(c.hasEquity)
       THEN Return(Str(<<>>))
       ELSE Return(Obj([where |-> Str(<<"WHERE ">> \o Join(p3.whereParts, " AND ")),
                        values |-> Arr(p3.values)]))

\* Job._whereClauseBuilder({ title, minSalary, hasEquity }): with no truthy
\* criterion it returns the string '', not an object
JobWhereClauseBuilder(c) ==
  LET p1 == IF Truthy(c.title)
              THEN Push(NoParts, "title ILIKE ", Like(c.title)) ELSE NoParts
      p2 == IF Truthy(c.minSalary)
              THEN Push(p1, "salary >= ", c.minSalary) ELSE p1
      p3 == IF Truthy(c.hasEquity)
              THEN Push(p2, "equity > ", Num(0)) ELSE p2
  IN IF ~Truthy(c.title) /\ ~Truthy(c.minSalary) /\ ~Truthy(c.hasEquity)
       THEN Return(Str(<<>>))
       ELSE Return(Obj([where |-> Str(<<"WHERE ">> \o Join(p3.whereParts, " AND ")),
                        values |-> Arr(p3.values)]))

(***************************************************************************)
(* Reading a clause back: its parts between separators.                    *)
(***************************************************************************)
RECURSIVE SplitFrom(_, _, _)
SplitFrom(text, sep, current) ==
  IF Len(text) = 0 THEN <<current>>
  ELSE IF Head(text) = sep
    THEN <<current>> \o SplitFrom(Tail(text), sep, <<>>)
    ELSE SplitFrom(Tail(text), sep, Append(current, Head(text)))

Split(text, sep) == SplitFrom(text, sep, <<>>)

CompanyRow(handle, name, description, numEmployees, logoUrl) ==
  [handle |-> handle, name |-> name, description |-> description,
   num_employees |-> numEmployees, logo_url |-> logoUrl]

JobRow(id, title, salary, equity, companyHandle) ==
  [id |-> id, title |-> title, salary |-> salary, equity |-> equity,
   company_handle |-> companyHandle]

(***************************************************************************)
(* The relational store behind db.query(text, params).  A statement is the *)
(* text the repository built (white space normalised) and its parameter    *)
(* list; the store reads the text back, binds the placeholders and applies *)
(* the statement to the tables.                                            *)
(***************************************************************************)
DB(c, j, s) == [companies |-> c, jobs |-> j, jobSeq |-> s]

Statement(text, params) == [text |-> text, params |-> params]

SqlCompanyGet ==
  "SELECT handle, name, description, num_employees AS \"numEmployees\", logo_url AS \"logoUrl\" FROM companies WHERE handle = "
SqlCompanyUpdate == "UPDATE companies SET "
SqlCompanyUpdateWhere == " WHERE handle = "
SqlCompanyReturning ==
  " RETURNING handle, name, description, num_employees AS \"numEmployees\", logo_url AS \"logoUrl\""
SqlCompanyDelete == "DELETE FROM companies WHERE handle = "
SqlCompanyDeleteReturning == " RETURNING handle"

SqlJobInsert == "INSERT INTO jobs (title, salary, equity, company_handle) VALUES ("
SqlJobReturning ==
  " RETURNING id, title, salary, equity, company_handle AS \"companyHandle\""
SqlJobGet ==
  "SELECT id, title, salary, equity, company_handle AS \"companyHandle\" FROM jobs WHERE id = "
SqlJobUpdate == "UPDATE jobs SET "
SqlJobUpdateWhere == " WHERE id = "
SqlJobDelete == "DELETE FROM jobs WHERE id = "
SqlJobDeleteReturning == " RETURNING id"

CompanyColumns == {"handle", "name", "description", "num_employees", "logo_url"}
JobColumns == {"id", "title", "salary", "equity", "company_handle"}

\* the row as the SELECT / RETURNING list names its columns
CompanyOut(r) ==
  Obj([handle |-> r.handle, name |-> r.name, description |-> r.description,
       numEmployees |-> r.num_employees, logoUrl |-> r.logo_url])
JobOut(r) ==
  Obj([id |-> r.id, title |-> r.title, salary |-> r.salary, equity |-> r.equity,
       companyHandle |-> r.company_handle])

\* position of the first chunk equal to `chunk`, 0 when there is none
IndexOf(text, chunk) ==
  IF \E i \in 1..Len(text) : text[i] = chunk
    THEN CHOOSE i \in 1..Len(text) :
           text[i] = chunk /\ \A k \in 1..(i - 1) : text[k] # chunk
    ELSE 0

\* the n of a chunk "$n" (n >= 1), 0 for any other chunk
PhNumber(chunk, limit) ==
  IF \E i \in 1..limit : Ph(i) = chunk
    THEN CHOOSE i \in 1..limit : Ph(i) = chunk
    ELSE 0

UsedPlaceholders(text) ==
  {i \in 0..Len(text) : \E k \in 1..Len(text) : text[k] = Ph(i)}

\* the statement's placeholders are $1..$n for the n parameters supplied
Bindable(stmt) ==
  LET used == UsedPlaceholders(stmt.text)
  IN IF stmt.params.t = "array" THEN used = 1..Len(stmt.params.v) ELSE used = {}

Bound(stmt, chunk) == stmt.params.v[PhNumber(chunk, Len(stmt.params.v))]

\* a parameter compared with or stored in an INTEGER column: a number, or a
\* string holding the decimal digits of one; anything else is rejected
IsIntLike(x) ==
  \/ x.t = "number"
  \/ x.t = "string" /\ \E n \in 0..9 : x.v = <<ToString(n)>>
AsInt(x) ==
  IF x.t = "number" THEN x ELSE Num(CHOOSE n \in 0..9 : x.v = <<ToString(n)>>)

\* a value stored in the NUMERIC column equity comes back as the string of
\* its digits: the number 0.1 as "0.1"
Decimal(digits) == [t |-> "decimal", v |-> digits]
AsNumeric(x) ==
  CASE x.t = "decimal" -> Str(x.v)
    [] x.t = "number" -> Str(<<ToString(x.v)>>)
    [] OTHER -> x

StoreFailed(db) == [db |-> db, result |-> Throw("StoreError")]
StoreRows(db, rows) == [db |-> db, result |-> Return(Obj([rows |-> Arr(rows)]))]

\* every jobs.company_handle names a company; keys are unique
Consistent(db) ==
  /\ \A j \in db.jobs : \E c \in db.companies : c.handle = j.company_handle
  /\ \A j1, j2 \in db.jobs : j1.id = j2.id => j1 = j2
  /\ \A c1, c2 \in db.companies : c1.handle = c2.handle => c1 = c2

\* rows of `table` as a sequence (key order; at most one row matches a key)
RECURSIVE RowsOf(_)
RowsOf(table) ==
  IF table = {} THEN <<>>
  ELSE LET r == CHOOSE x \in table : TRUE IN <<r>> \o RowsOf(table \ {r})

\* UPDATE <table> SET "col"=$i, ... WHERE <key> = $k RETURNING ...
\* the assignments read back from the text between SET and WHERE
SetList(text, whereChunk) ==
  Split(SubSeq(text, 2, IndexOf(text, whereChunk) - 1), ", ")

SetListValid(stmt, whereChunk, columns) ==
  LET w == IndexOf(stmt.text, whereChunk)
      n == Len(stmt.params.v)
      set == SetList(stmt.text, whereChunk)
  IN /\ w > 2
     /\ Len(stmt.text) = w + 2
     /\ PhNumber(stmt.text[w + 1], n) > 0
     /\ \A i \in 1..Len(set) :
          /\ Len(set[i]) = 4
          /\ set[i][1] = "\""
          /\ set[i][2] \in columns
          /\ set[i][3] = "\"="
          /\ PhNumber(set[i][4], n) > 0
     /\ \A i, k \in 1..Len(set) : i # k => set[i][2] # set[k][2]

Updated(row, stmt, whereChunk) ==
  LET set == SetList(stmt.text, whereChunk)
  IN [col \in DOMAIN row |->
        IF \E i \in 1..Len(set) : set[i][2] = col
          THEN Bound(stmt, (CHOOSE a \in {set[i] : i \in 1..Len(set)} : a[2] = col)[4])
          ELSE row[col]]

WhereKey(stmt, whereChunk) ==
  Bound(stmt, stmt.text[IndexOf(stmt.text, whereChunk) + 1])

ExecCompanyUpdate(db, stmt) ==
  IF ~SetListValid(stmt, SqlCompanyUpdateWhere, CompanyColumns) THEN StoreFailed(db)
  ELSE
    LET key == WhereKey(stmt, SqlCompanyUpdateWhere)
        hit == {r \in db.companies : r.handle = key}
        new == {Updated(r, stmt, SqlCompanyUpdateWhere) : r \in hit}
        db2 == [db EXCEPT !.companies = (db.companies \ hit) \cup new]
    IN IF Consistent(db2) /\ Cardinality(db2.companies) = Cardinality(db.companies)
         THEN StoreRows(db2, [i \in 1..Len(RowsOf(new)) |-> CompanyOut(RowsOf(new)[i])])
         ELSE StoreFailed(db)

ExecJobUpdate(db, stmt) ==
  IF \/ ~SetListValid(stmt, SqlJobUpdateWhere, JobColumns)
     \/ ~IsIntLike(WhereKey(stmt, SqlJobUpdateWhere))
    THEN StoreFailed(db)
  ELSE
    LET key == AsInt(WhereKey(stmt, SqlJobUpdateWhere))
        hit == {r \in db.jobs : r.id = key}
        new == {[Updated(r, stmt, SqlJobUpdateWhere) EXCEPT !.equity = AsNumeric(@)]
                  : r \in hit}
        db2 == [db EXCEPT !.jobs = (db.jobs \ hit) \cup new]
    IN IF Consistent(db2) /\ Cardinality(db2.jobs) = Cardinality(db.jobs)
         THEN StoreRows(db2, [i \in 1..Len(RowsOf(new)) |-> JobOut(RowsOf(new)[i])])
         ELSE StoreFailed(db)

\* SELECT ... FROM companies WHERE handle = $1
ExecCompanyGet(db, stmt) ==
  LET hit == {r \in db.companies : r.handle = Bound(stmt, stmt.text[2])}
  IN StoreRows(db, [i \in 1..Len(RowsOf(hit)) |-> CompanyOut(RowsOf(hit)[i])])

\* SELECT ... FROM jobs WHERE id = $1
ExecJobGet(db, stmt) ==
  IF ~IsIntLike(Bound(stmt, stmt.text[2])) THEN StoreFailed(db)
  ELSE LET hit == {r \in db.jobs : r.id = AsInt(Bound(stmt, stmt.text[2]))}
       IN StoreRows(db, [i \in 1..Len(RowsOf(hit)) |-> JobOut(RowsOf(hit)[i])])

\* DELETE FROM companies WHERE handle = $1 RETURNING handle; the jobs of a
\* deleted company go with it (jobs.company_handle references companies)
ExecCompanyDelete(db, stmt) ==
  LET hit == {r \in db.companies : r.handle = Bound(stmt, stmt.text[2])}
      gone == {j \in db.jobs : \E r \in hit : j.company_handle = r.handle}
  IN StoreRows([db EXCEPT !.companies = db.companies \ hit, !.jobs = db.jobs \ gone],
               [i \in 1..Len(RowsOf(hit)) |-> Obj([handle |-> RowsOf(hit)[i].handle])])

\* mutant: the statement deletes every job up to the id
ExecJobDelete_upTo(db, stmt) ==
  IF ~IsIntLike(Bound(stmt, stmt.text[2])) THEN StoreFailed(db)
  ELSE LET hit == {r \in db.jobs : r.id = AsInt(Bound(stmt, stmt.text[2]))}
           gone == {r \in db.jobs : r.id.v <= AsInt(Bound(stmt, stmt.text[2])).v}
       IN StoreRows([db EXCEPT !.jobs = db.jobs \ gone],
                    [i \in 1..Len(RowsOf(hit)) |-> Obj([id |-> RowsOf(hit)[i].id])])

\* DELETE FROM jobs WHERE id = $1 RETURNING id
ExecJobDelete(db, stmt) ==
  IF ~IsIntLike(Bound(stmt, stmt.text[2])) THEN StoreFailed(db)
  ELSE LET hit == {r \in db.jobs : r.id = AsInt(Bound(stmt, stmt.text[2]))}
       IN StoreRows([db EXCEPT !.jobs = db.jobs \ hit],
                    [i \in 1..Len(RowsOf(hit)) |-> Obj([id |-> RowsOf(hit)[i].id])])

\* INSERT INTO jobs (...) VALUES ($1, $2, $3, $4) RETURNING ...: the id comes
\* from the sequence, which advances even when the insert is rejected
ExecJobInsert(db, stmt) ==
  LET row == JobRow(Num(db.jobSeq + 1), Bound(stmt, stmt.text[2]),
                    Bound(stmt, stmt.text[4]), AsNumeric(Bound(stmt, stmt.text[6])),
                    Bound(stmt, stmt.text[8]))
      db1 == [db EXCEPT !.jobSeq = db.jobSeq + 1]
      db2 == [db1 EXCEPT !.jobs = db.jobs \cup {row}]
  IN IF row.title.t = "string" /\ row.company_handle.t = "string" /\ Consistent(db2)
       THEN StoreRows(db2, <<JobOut(row)>>)
       ELSE StoreFailed(db1)

SqlJobFindAll ==
  "SELECT id, title, salary, equity, company_handle AS \"companyHandle\" FROM jobs "
SqlJobOrderBy == " ORDER BY title"

\* the characters of the titles and search texts used, in code point order
Alphabet == <<"%", "1", "2", "3", "9", "J", "N", "X", "_", "j", "n", "x">>
CharRank(ch) == IndexOf(Alphabet, ch)
Lower(ch) ==
  CASE ch = "J" -> "j" [] ch = "N" -> "n" [] ch = "X" -> "x" [] OTHER -> ch

\* text ILIKE pattern: % stands for any run of characters, _ for any one
\* character, every other character for itself in either case
RECURSIVE ILike(_, _)
ILike(text, pattern) ==
  IF Len(pattern) = 0 THEN Len(text) = 0
  ELSE IF Head(pattern) = "%"
    THEN \/ ILike(text, Tail(pattern))
         \/ Len(text) > 0 /\ ILike(Tail(text), pattern)
  ELSE /\ Len(text) > 0
       /\ Head(pattern) = "_" \/ Lower(Head(pattern)) = Lower(Head(text))
       /\ ILike(Tail(text), Tail(pattern))

\* a NUMERIC value read back as text is greater than 0
PositiveNumeric(x) == x.t = "string" /\ x.v \notin {<<"0">>, <<"0.0">>}

\* ORDER BY title: titles compared character by character
RECURSIVE TitleLess(_, _)
TitleLess(a, b) ==
  IF Len(b) = 0 THEN FALSE
  ELSE IF Len(a) = 0 THEN TRUE
  ELSE IF Head(a) # Head(b) THEN CharRank(Head(a)) < CharRank(Head(b))
  ELSE TitleLess(Tail(a), Tail(b))

\* rows with equal titles come in an order the store is free to choose:
\* tie names the one it chose
RowBefore(r1, r2, tie) ==
  \/ TitleLess(r1.title.v, r2.title.v)
  \/ /\ r1.title = r2.title
     /\ IF tie = "asc" THEN r1.id.v < r2.id.v ELSE r1.id.v > r2.id.v

RECURSIVE Ordered(_, _)
Ordered(rows, tie) ==
  IF rows = {} THEN <<>>
  ELSE LET first == CHOOSE r \in rows : \A x \in rows \ {r} : RowBefore(r, x, tie)
       IN <<first>> \o Ordered(rows \ {first}, tie)

\* one predicate <<text, "$n">> of a WHERE clause, on a row of jobs
JobPredicateValid(stmt, part) ==
  /\ Len(part) = 2
  /\ PhNumber(part[2], Len(stmt.params.v)) > 0
  /\ \/ part[1] = "title ILIKE " /\ Bound(stmt, part[2]).t = "string"
     \/ part[1] \in {"salary >= ", "equity > "} /\ IsIntLike(Bound(stmt, part[2]))

JobPredicateHolds(stmt, part, row) ==
  CASE part[1] = "title ILIKE " -> ILike(row.title.v, Bound(stmt, part[2]).v)
    [] part[1] = "salary >= " ->
         row.salary.t = "number" /\ row.salary.v >= AsInt(Bound(stmt, part[2])).v
    [] part[1] = "equity > " ->
         IF AsInt(Bound(stmt, part[2])).v = 0 THEN PositiveNumeric(row.equity)
         ELSE FALSE

\* SELECT ... FROM jobs [alias] [WHERE p AND ...] ORDER BY title.  A lone
\* identifier after the table name is read as an alias of the table.
ExecJobFindAll(db, stmt, tie) ==
  LET middle == SubSeq(stmt.text, 2, Len(stmt.text) - 1)
      parts == IF Len(middle) > 0 /\ Head(middle) = "WHERE "
                 THEN Split(Tail(middle), " AND ") ELSE <<>>
      hit == {r \in db.jobs : \A i \in 1..Len(parts) : JobPredicateHolds(stmt, parts[i], r)}
      rows == Ordered(hit, tie)
  IN IF \/ Len(stmt.text) < 2
        \/ stmt.text[Len(stmt.text)] # SqlJobOrderBy
        \/ ~(\/ middle = <<>>
             \/ middle = <<"undefined">>
             \/ /\ Head(middle) = "WHERE "
                /\ \A i \in 1..Len(parts) : JobPredicateValid(stmt, parts[i]))
       THEN StoreFailed(db)
       ELSE StoreRows(db, [i \in 1..Len(rows) |-> JobOut(rows[i])])

\* db.query(text, params) of a statement that returns a list of rows
QueryRows(db, stmt, tie) ==
  IF ~Bindable(stmt) THEN StoreFailed(db)
  ELSE IF Head(stmt.text) = SqlJobFindAll THEN ExecJobFindAll(db, stmt, tie)
  ELSE StoreFailed(db)

SqlCompanyCheck == "SELECT handle FROM companies WHERE handle = "
SqlCompanyInsert ==
  "INSERT INTO companies(handle, name, description, num_employees, logo_url) VALUES ("

\* SELECT handle FROM companies WHERE handle = $1
ExecCompanyCheck(db, stmt) ==
  LET hit == {r \in db.companies : r.handle = Bound(stmt, stmt.text[2])}
  IN StoreRows(db, [i \in 1..Len(RowsOf(hit)) |-> Obj([handle |-> RowsOf(hit)[i].handle])])

\* INSERT INTO companies(...) VALUES ($1, $2, $3, $4, $5) RETURNING ...: a
\* second row with a handle the table has is rejected
ExecCompanyInsert(db, stmt) ==
  LET row == CompanyRow(Bound(stmt, stmt.text[2]), Bound(stmt, stmt.text[4]),
                        Bound(stmt, stmt.text[6]), Bound(stmt, stmt.text[8]),
                        Bound(stmt, stmt.text[10]))
      db2 == [db EXCEPT !.companies = db.companies \cup {row}]
  IN IF /\ row.handle.t = "string"
        /\ row.name.t = "string"
        /\ \A c \in db.companies : c.handle # row.handle
        /\ Consistent(db2)
       THEN StoreRows(db2, <<CompanyOut(row)>>)
       ELSE StoreFailed(db)

\* db.query(text, params)
Query(db, stmt) ==
  IF ~Bindable(stmt) THEN StoreFailed(db)
  ELSE CASE Head(stmt.text) = SqlCompanyGet -> ExecCompanyGet(db, stmt)
         [] Head(stmt.text) = SqlCompanyUpdate -> ExecCompanyUpdate(db, stmt)
         [] Head(stmt.text) = SqlCompanyDelete -> ExecCompanyDelete(db, stmt)
         [] Head(stmt.text) = SqlJobInsert -> ExecJobInsert(db, stmt)
         [] Head(stmt.text) = SqlJobGet -> ExecJobGet(db, stmt)
         [] Head(stmt.text) = SqlJobUpdate -> ExecJobUpdate(db, stmt)
         [] Head(stmt.text) = SqlJobDelete -> ExecJobDelete(db, stmt)
         [] Head(stmt.text) = SqlCompanyCheck -> ExecCompanyCheck(db, stmt)
         [] Head(stmt.text) = SqlCompanyInsert -> ExecCompanyInsert(db, stmt)
         [] OTHER -> StoreFailed(db)

\* result.rows[0]: undefined when no row came back
FirstRow(result) ==
  LET rows == Prop(result, "rows")
  IN IF Len(rows.v) > 0 THEN rows.v[1] ELSE Undefined

\* the translation tables of helpers/sql.test.js, Company.update, Job.update
TestJsToSql ==
  [firstName |-> "first_name", lastName |-> "last_name", isAdmin |-> "is_admin"]
CompanyJsToSql == [numEmployees |-> "num_employees", logoUrl |-> "logo_url"]
JobJsToSql == [companyHandle |-> "company_handle"]

(***************************************************************************)
(* models/job.js and models/company.js: the repository methods.  Each      *)
(* yields the store after the call, the completion of the call and the     *)
(* statements it sent.  A rejected db.query propagates as the completion.  *)
(***************************************************************************)
Done(db, completion, statements) ==
  [db |-> db, out |-> completion, sent |-> statements]

\* mutant: the key takes the number of the last SET placeholder
idVarIdx_noIncrement(values) == Ph(Len(values.v))

\* const idVarIdx = "$" + (values.length + 1)
idVarIdx(values) == Ph(Len(values.v) + 1)

\* const handleVarIdx = "$" + (values.length + 1)
handleVarIdx(values) == Ph(Len(values.v) + 1)

\* Job.create({ title, salary, equity, companyHandle })
JobCreate(db, data) ==
  LET stmt == Statement(<<SqlJobInsert, "$1", ", ", "$2", ", ", "$3", ", ", "$4",
                          ")" \o SqlJobReturning>>,
                        Arr(<<Prop(data, "title"), Prop(data, "salary"),
                              Prop(data, "equity"), Prop(data, "companyHandle")>>))
      r == Query(db, stmt)
  IN IF r.result.kind = "throw" THEN Done(r.db, r.result, <<stmt>>)
     ELSE Done(r.db, Return(FirstRow(r.result.value)), <<stmt>>)

\* Job.findAll(query)
JobFindAll(db, query, tie) ==
  LET built == JobWhereClauseBuilder([title |-> Prop(query, "title"),
                                      minSalary |-> Prop(query, "minSalary"),
                                      hasEquity |-> Prop(query, "hasEquity")])
      where == Prop(built.value, "where")
      values == Prop(built.value, "values")
      stmt == Statement(<<SqlJobFindAll>> \o Interpolate(where) \o <<SqlJobOrderBy>>,
                        values)
      r == QueryRows(db, stmt, tie)
  IN IF built.kind = "throw" THEN Done(db, built, <<>>)
     ELSE IF r.result.kind = "throw" THEN Done(r.db, r.result, <<stmt>>)
     ELSE Done(r.db, Return(Prop(r.result.value, "rows")), <<stmt>>)

\* Job.get(id)
JobGet(db, id) ==
  LET stmt == Statement(<<SqlJobGet, "$1">>, Arr(<<id>>))
      r == Query(db, stmt)
  IN IF r.result.kind = "throw" THEN Done(r.db, r.result, <<stmt>>)
     ELSE IF ~Truthy(FirstRow(r.result.value))
       THEN Done(r.db, Throw("NotFoundError"), <<stmt>>)
       ELSE Done(r.db, Return(FirstRow(r.result.value)), <<stmt>>)

\* mutant: a missing row is not reported
JobUpdate_noNotFound(db, id, data) ==
  LET built == sqlForPartialUpdate(data, JobJsToSql)
      setCols == Prop(built.value, "setCols")
      values == Prop(built.value, "values")
      stmt == Statement(<<SqlJobUpdate>> \o Interpolate(setCols)
                          \o <<SqlJobUpdateWhere, idVarIdx(values), SqlJobReturning>>,
                        Arr(values.v \o <<id>>))
      r == Query(db, stmt)
  IN IF built.kind = "throw" THEN Done(db, built, <<>>)
     ELSE IF r.result.kind = "throw" THEN Done(r.db, r.result, <<stmt>>)
     ELSE Done(r.db, Return(FirstRow(r.result.value)), <<stmt>>)

\* Job.update(id, data)
JobUpdate(db, id, data) ==
  LET built == sqlForPartialUpdate(data, JobJsToSql)
      setCols == Prop(built.value, "setCols")
      values == Prop(built.value, "values")
      stmt == Statement(<<SqlJobUpdate>> \o Interpolate(setCols)
                          \o <<SqlJobUpdateWhere, idVarIdx(values), SqlJobReturning>>,
                        Arr(values.v \o <<id>>))
      r == Query(db, stmt)
  IN IF built.kind = "throw" THEN Done(db, built, <<>>)
     ELSE IF r.result.kind = "throw" THEN Done(r.db, r.result, <<stmt>>)
     ELSE IF ~Truthy(FirstRow(r.result.value))
       THEN Done(r.db, Throw("NotFoundError"), <<stmt>>)
       ELSE Done(r.db, Return(FirstRow(r.result.value)), <<stmt>>)

\* Job.remove(id)
JobRemove(db, id) ==
  LET stmt == Statement(<<SqlJobDelete, "$1", SqlJobDeleteReturning>>, Arr(<<id>>))
      r == Query(db, stmt)
  IN IF r.result.kind = "throw" THEN Done(r.db, r.result, <<stmt>>)
     ELSE IF ~Truthy(FirstRow(r.result.value))
       THEN Done(r.db, Throw("NotFoundError"), <<stmt>>)
       ELSE Done(r.db, Return(Undefined), <<stmt>>)

\* Company.create, up to its first await: the duplicate check.  It completes
\* with the error, or with nothing yet (the INSERT is still to be sent).
CompanyCreateCheck(db, data) ==
  LET stmt == Statement(<<SqlCompanyCheck, "$1">>, Arr(<<Prop(data, "handle")>>))
      r == Query(db, stmt)
  IN IF r.result.kind = "throw" THEN Done(r.db, r.result, <<stmt>>)
     ELSE IF Truthy(FirstRow(r.result.value))
       THEN Done(r.db, Throw("BadRequestError"), <<stmt>>)
       ELSE Done(r.db, Return(Undefined), <<stmt>>)

\* Company.create, from the duplicate check on: the INSERT and the return
CompanyCreateInsert(db, data) ==
  LET stmt == Statement(<<SqlCompanyInsert, "$1", ", ", "$2", ", ", "$3", ", ", "$4",
                          ", ", "$5", ")" \o SqlCompanyReturning>>,
                        Arr(<<Prop(data, "handle"), Prop(data, "name"),
                              Prop(data, "description"), Prop(data, "numEmployees"),
                              Prop(data, "logoUrl")>>))
      r == Query(db, stmt)
  IN IF r.result.kind = "throw" THEN Done(r.db, r.result, <<stmt>>)
     ELSE Done(r.db, Return(FirstRow(r.result.value)), <<stmt>>)

\* Company.get(handle)
CompanyGet(db, handle) ==
  LET stmt == Statement(<<SqlCompanyGet, "$1">>, Arr(<<handle>>))
      r == Query(db, stmt)
  IN IF r.result.kind = "throw" THEN Done(r.db, r.result, <<stmt>>)
     ELSE IF ~Truthy(FirstRow(r.result.value))
       THEN Done(r.db, Throw("NotFoundError"), <<stmt>>)
       ELSE Done(r.db, Return(FirstRow(r.result.value)), <<stmt>>)

\* Company.update(handle, data)
CompanyUpdate(db, handle, data) ==
  LET built == sqlForPartialUpdate(data, CompanyJsToSql)
      setCols == Prop(built.value, "setCols")
      values == Prop(built.value, "values")
      stmt == Statement(<<SqlCompanyUpdate>> \o Interpolate(setCols)
                          \o <<SqlCompanyUpdateWhere, handleVarIdx(values),
                               SqlCompanyReturning>>,
                        Arr(values.v \o <<handle>>))
      r == Query(db, stmt)
  IN IF built.kind = "throw" THEN Done(db, built, <<>>)
     ELSE IF r.result.kind = "throw" THEN Done(r.db, r.result, <<stmt>>)
     ELSE IF ~Truthy(FirstRow(r.result.value))
       THEN Done(r.db, Throw("NotFoundError"), <<stmt>>)
       ELSE Done(r.db, Return(FirstRow(r.result.value)), <<stmt>>)

\* Company.remove(handle)
CompanyRemove(db, handle) ==
  LET stmt == Statement(<<SqlCompanyDelete, "$1", SqlCompanyDeleteReturning>>,
                        Arr(<<handle>>))
      r == Query(db, stmt)
  IN IF r.result.kind = "throw" THEN Done(r.db, r.result, <<stmt>>)
     ELSE IF ~Truthy(FirstRow(r.result.value))
       THEN Done(r.db, Throw("NotFoundError"), <<stmt>>)
       ELSE Done(r.db, Return(Undefined), <<stmt>>)

(***************************************************************************)
(* middleware/auth.js.  A middleware completes by calling next() (Return)  *)
(* or by raising an error, thrown or passed to next(err) (Throw).          *)
(***************************************************************************)
\* ensureLoggedIn(req, res, next)
ensureLoggedIn(locals) ==
  IF ~Truthy(Prop(locals, "user")) THEN Throw("UnauthorizedError")
  ELSE Return(Undefined)

\* mutant: any logged-in user passes
ensureIsAdmin_anyUser(locals) ==
  IF ~Truthy(Prop(locals, "user")) THEN Throw("UnauthorizedError")
  ELSE Return(Undefined)

\* ensureIsAdmin(req, res, next)
ensureIsAdmin(locals) ==
  IF ~Truthy(Prop(locals, "user")) THEN Throw("UnauthorizedError")
  ELSE IF ~Truthy(Prop(Prop(locals, "user"), "isAdmin")) THEN Throw("ForbiddenError")
  ELSE Return(Undefined)

\* jwt.verify(token, SECRET_KEY): the payload of a token signed with the key;
\* any other string makes it throw
SignedTokens ==
  [good_u1 |-> Obj([username |-> Str(<<"u1">>), isAdmin |-> Bool(FALSE)]),
   good_admin |-> Obj([username |-> Str(<<"admin">>), isAdmin |-> Bool(TRUE)])]

Verify(token) ==
  IF Len(token) = 1 /\ token[1] \in DOMAIN SignedTokens
    THEN Return(SignedTokens[token[1]])
    ELSE Throw("JsonWebTokenError")

\* authHeader.replace(/^[Bb]earer /, "")
StripBearer(header) ==
  IF Len(header) > 0 /\ Head(header) \in {"Bearer ", "bearer "}
    THEN Tail(header) ELSE header

\* String.prototype.trim, on chunks of white space at either end
RECURSIVE Trim(_)
Trim(text) ==
  IF Len(text) = 0 THEN text
  ELSE IF Head(text) = " " THEN Trim(Tail(text))
  ELSE IF text[Len(text)] = " " THEN Trim(SubSeq(text, 1, Len(text) - 1))
  ELSE text

\* o.name = value
WithProp(o, name, value) ==
  Obj([key \in (DOMAIN o.v) \cup {name} |-> IF key = name THEN value ELSE o.v[key]])

\* what a middleware did: res.locals after it, and the argument list of each
\* call of next it made
Passed(locals, calls) == [locals |-> locals, next |-> calls]

\* mutant: a token that fails verification is reported to next
authenticateJWT_reportsBadToken(headers, locals) ==
  LET authHeader == IF Truthy(headers) THEN Prop(headers, "authorization") ELSE headers
      verified == Verify(Trim(StripBearer(authHeader.v)))
  IN IF ~Truthy(authHeader) THEN Passed(locals, << <<>> >>)
     ELSE IF verified.kind = "throw" THEN Passed(locals, << <<verified.value>> >>)
     ELSE Passed(WithProp(locals, "user", verified.value), << <<>> >>)

\* authenticateJWT(req, res, next)
authenticateJWT(headers, locals) ==
  LET authHeader == IF Truthy(headers) THEN Prop(headers, "authorization") ELSE headers
      verified == Verify(Trim(StripBearer(authHeader.v)))
  IN IF ~Truthy(authHeader) THEN Passed(locals, << <<>> >>)
     ELSE IF verified.kind = "throw" THEN Passed(locals, << <<>> >>)
     ELSE Passed(WithProp(locals, "user", verified.value), << <<>> >>)

\* a === b
StrictEq(a, b) == a.t = b.t /\ a = b

\* ensureIsAdminOrEndpointUser(req, res, next)
ensureIsAdminOrEndpointUser(locals, params) ==
  LET user == Prop(locals, "user")
  IN IF ~Truthy(user) THEN Throw("UnauthorizedError")
     ELSE IF ~(\/ StrictEq(Prop(user, "username"), Prop(params, "username"))
               \/ StrictEq(Prop(user, "isAdmin"), Bool(TRUE)))
       THEN Throw("ForbiddenError")
     ELSE Return(Undefined)

(***************************************************************************)
(* routes/jobs.js.  The request schemas, the error classes and the error   *)
(* handler of the application are not part of the sources at hand: they    *)
(* are taken from the route tests and the specification.                   *)
(***************************************************************************)
\* status of the response the error handler sends for an error
StatusOf(error) ==
  CASE error = "BadRequestError" -> 400
    [] error = "UnauthorizedError" -> 401
    [] error = "ForbiddenError" -> 403
    [] error = "NotFoundError" -> 404
    [] OTHER -> 500

Respond(status, body) == [kind |-> "response", status |-> status, body |-> body]

ErrorResponse(error) ==
  Respond(StatusOf(error), Obj([error |-> Obj([status |-> Num(StatusOf(error))])]))

\* the object a JSON body or an update map stands for
AsObject(data) == Obj([key \in {data[i].k : i \in 1..Len(data)} |->
                        (CHOOSE e \in {data[i] : i \in 1..Len(data)} : e.k = key).v])

\* jobNew.json: title and companyHandle required, salary an integer, equity
\* a number, no other property
ValidJobNew(body) ==
  LET keys == {body[i].k : i \in 1..Len(body)}
      o == AsObject(body)
  IN /\ {"title", "companyHandle"} \subseteq keys
     /\ keys \subseteq {"title", "salary", "equity", "companyHandle"}
     /\ Prop(o, "title").t = "string"
     /\ Prop(o, "companyHandle").t = "string"
     /\ "salary" \in keys => Prop(o, "salary").t = "number"
     /\ "equity" \in keys => Prop(o, "equity").t \in {"number", "decimal"}

\* jobUpdate.json: only title, salary and equity may be given
ValidJobUpdate(body) ==
  {body[i].k : i \in 1..Len(body)} \subseteq {"title", "salary", "equity"}

Entered(done, names) == [db |-> done.db, out |-> done.out, sent |-> done.sent,
                         trace |-> names]

\* the handler's completion as a response: an error goes to the error handler
Responded(done, names, status, body) ==
  Entered([done EXCEPT !.out = IF done.out.kind = "throw"
                                 THEN ErrorResponse(done.out.value.v)
                                 ELSE Respond(status, body)],
          names)

\* the middleware ensureLoggedIn, ensureIsAdmin in front of the three
\* handlers: the error response, or the call of next()
Guarded(db, req) ==
  IF ensureLoggedIn(req.locals).kind = "throw"
    THEN Entered(Done(db, ErrorResponse(ensureLoggedIn(req.locals).value.v), <<>>),
                 <<"ensureLoggedIn">>)
  ELSE IF ensureIsAdmin(req.locals).kind = "throw"
    THEN Entered(Done(db, ErrorResponse(ensureIsAdmin(req.locals).value.v), <<>>),
                 <<"ensureLoggedIn", "ensureIsAdmin">>)
  ELSE Entered(Done(db, Return(Undefined), <<>>),
               <<"ensureLoggedIn", "ensureIsAdmin">>)

\* async function (req, res, next) of router.post("/")
PostJobHandler(db, req) ==
  IF ~ValidJobNew(req.body)
    THEN Entered(Done(db, ErrorResponse("BadRequestError"), <<>>),
                 <<"ensureLoggedIn", "ensureIsAdmin", "handler">>)
    ELSE LET done == JobCreate(db, AsObject(req.body))
         IN Responded(done,
                      <<"ensureLoggedIn", "ensureIsAdmin", "handler", "Job.create">>,
                      201, Obj([job |-> done.out.value]))

\* router.post("/", ensureLoggedIn, ensureIsAdmin, async function ...)
PostJob(db, req) ==
  IF Guarded(db, req).out.kind = "response" THEN Guarded(db, req)
  ELSE PostJobHandler(db, req)

\* async function (req, res, next) of router.patch("/:id")
PatchJobHandler(db, req) ==
  IF ~ValidJobUpdate(req.body)
    THEN Entered(Done(db, ErrorResponse("BadRequestError"), <<>>),
                 <<"ensureLoggedIn", "ensureIsAdmin", "handler">>)
    ELSE LET done == JobUpdate(db, req.params.id, req.body)
         IN Responded(done,
                      <<"ensureLoggedIn", "ensureIsAdmin", "handler", "Job.update">>,
                      200, Obj([job |-> done.out.value]))

\* router.patch("/:id", ensureLoggedIn, ensureIsAdmin, async function ...)
PatchJob(db, req) ==
  IF Guarded(db, req).out.kind = "response" THEN Guarded(db, req)
  ELSE PatchJobHandler(db, req)

\* async function (req, res, next) of router.delete("/:id")
DeleteJobHandler(db, req) ==
  Responded(JobRemove(db, req.params.id),
            <<"ensureLoggedIn", "ensureIsAdmin", "handler", "Job.remove">>,
            200, Obj([deleted |-> req.params.id]))

\* router.delete("/:id", ensureLoggedIn, ensureIsAdmin, async function ...)
DeleteJob(db, req) ==
  IF Guarded(db, req).out.kind = "response" THEN Guarded(db, req)
  ELSE DeleteJobHandler(db, req)

\* the error handler's response for an error that carries a message
ErrorResponseWith(error, message) ==
  Respond(StatusOf(error),
          Obj([error |-> Obj([message |-> message, status |-> Num(StatusOf(error))])]))

\* Number(text): the number a string of digits spells, NaN for other text
NaN == [t |-> "NaN", v |-> 0]
ToNumber(x) ==
  IF x.t = "number" THEN x
  ELSE IF x.t = "string" /\ x.v = <<>> THEN Num(0)
  ELSE IF IsIntLike(x) THEN AsInt(x) ELSE NaN

\* the query after the handler's conversions: a truthy minSalary becomes a
\* number, the text "true" of hasEquity the boolean
ConvertedQuery(query) ==
  LET q1 == IF Truthy(Prop(query, "minSalary"))
              THEN WithProp(query, "minSalary", ToNumber(Prop(query, "minSalary")))
              ELSE query
  IN IF StrictEq(Prop(q1, "hasEquity"), Str(<<"true">>))
       THEN WithProp(q1, "hasEquity", Bool(TRUE)) ELSE q1

\* jobFiltering.json: title a string, minSalary an integer, hasEquity a
\* boolean, no other property; the messages of the violations
FilterTypes == [title |-> "string", minSalary |-> "integer", hasEquity |-> "boolean"]
HasType(x, type) ==
  CASE type = "string" -> x.t = "string"
    [] type = "integer" -> x.t = "number"
    [] type = "boolean" -> x.t = "boolean"

FilterViolations(query) ==
  LET typed == SelectSeq(<<"minSalary", "hasEquity", "title">>,
                 LAMBDA key : key \in DOMAIN query.v
                              /\ ~HasType(query.v[key], FilterTypes[key]))
      extra == RowsOf(DOMAIN query.v \ DOMAIN FilterTypes)
  IN [i \in 1..Len(typed) |->
        Str(<<"instance.", typed[i], " is not of a type(s) ", FilterTypes[typed[i]]>>)]
     \o [i \in 1..Len(extra) |->
          Str(<<"instance is not allowed to have the additional property ", extra[i]>>)]

\* mutant: the query goes to Job.findAll before it is validated
GetJobsHandler_findsFirst(db, req, tie) ==
  LET query == ConvertedQuery(req.query)
      errs == FilterViolations(query)
      done == JobFindAll(db, query, tie)
  IN IF done.out.kind = "return" /\ Len(errs) > 0
       THEN Entered(Done(done.db, ErrorResponseWith("BadRequestError", Arr(errs)),
                         done.sent),
                    <<"handler", "Job.findAll">>)
       ELSE Responded(done, <<"handler", "Job.findAll">>, 200,
                      Obj([jobs |-> done.out.value]))

\* async function (req, res, next) of router.get("/")
GetJobsHandler(db, req, tie) ==
  LET query == ConvertedQuery(req.query)
      errs == FilterViolations(query)
      done == JobFindAll(db, query, tie)
  IN IF Len(errs) > 0
       THEN Entered(Done(db, ErrorResponseWith("BadRequestError", Arr(errs)), <<>>),
                    <<"handler">>)
       ELSE Responded(done, <<"handler", "Job.findAll">>, 200,
                      Obj([jobs |-> done.out.value]))

\* async function (req, res, next) of router.get("/:id")
GetJobHandler(db, req) ==
  LET done == JobGet(db, req.params.id)
  IN Responded(done, <<"handler", "Job.get">>, 200, Obj([job |-> done.out.value]))

\* what the calls of next by a middleware lead to: each call without an
\* argument enters the route, a call with an error the error handler
RECURSIVE NextMarks(_)
NextMarks(calls) ==
  IF Len(calls) = 0 THEN <<>>
  ELSE <<IF Len(Head(calls)) = 0 THEN "next()" ELSE "next(err)">>
       \o NextMarks(Tail(calls))

\* a route behind authenticateJWT (the application runs it before every
\* route): the response of the route, or of the error handler
BehindAuthentication(db, auth, routed) ==
  IF auth.next = << <<>> >>
    THEN [routed EXCEPT !.trace = <<"authenticateJWT">> \o NextMarks(auth.next) \o @]
    ELSE Entered(Done(db, IF \E i \in 1..Len(auth.next) : Len(auth.next[i]) > 0
                            THEN ErrorResponse("Error")
                            ELSE Respond(0, Undefined), <<>>),
                 <<"authenticateJWT">> \o NextMarks(auth.next))

(***************************************************************************)
(* The store as the tests seed it (models/_testCommon.js), with small      *)
(* numbers standing for the salaries and head counts.                      *)
(***************************************************************************)
SeedCompanies ==
  {CompanyRow(Str(<<"c1">>), Str(<<"C", "1">>), Str(<<"Desc1">>), Num(1),
              Str(<<"http://c1.img">>)),
   CompanyRow(Str(<<"c2">>), Str(<<"C", "2">>), Str(<<"Desc2">>), Num(2),
              Str(<<"http://c2.img">>))}

SeedJobs ==
  {JobRow(Num(1), Str(<<"j", "1">>), Num(1), Str(<<"0.01">>), Str(<<"c1">>)),
   JobRow(Num(2), Str(<<"j", "2">>), Num(2), Str(<<"0.07">>), Str(<<"c2">>))}

\* stores a run starts from: the seed, the seed after Job.remove(2), after
\* Company.remove("c2"), and after a third job was created
Seeds ==
  {DB(SeedCompanies, SeedJobs, 2),
   DB(SeedCompanies, {j \in SeedJobs : j.id = Num(1)}, 2),
   DB({c \in SeedCompanies : c.handle = Str(<<"c1">>)},
      {j \in SeedJobs : j.id = Num(1)}, 2),
   DB(SeedCompanies,
      SeedJobs \cup {JobRow(Num(3), Str(<<"J", "3">>), Num(0), Str(<<"0">>),
                            Str(<<"c1">>))}, 3)}

Init ==
  /\ \E db \in Seeds :
       /\ companies = db.companies
       /\ jobs = db.jobs
       /\ jobSeq = db.jobSeq
  /\ op = "init"
  /\ args = <<>>
  /\ out = Return(Undefined)
  /\ sent = <<>>
  /\ trace = <<>>
  /\ steps = 0
  /\ pending = {}
  /\ heap = <<>>

\* the builders read no store: their runs start from the seed
InitSeed == Init /\ companies = SeedCompanies /\ jobs = SeedJobs

\* stores for the list queries: the seed, the seed with a job created from
\* { title, companyHandle } alone (no salary, no equity), the same with a
\* second job titled j1 that pays nothing, and a store without jobs
FindSeeds ==
  LET bare == JobRow(Num(3), Str(<<"j", "3", "X">>), Undefined, Undefined, Str(<<"c1">>))
      twin == JobRow(Num(4), Str(<<"j", "1">>), Num(0), Str(<<"0">>), Str(<<"c2">>))
  IN {DB(SeedCompanies, SeedJobs, 2),
      DB(SeedCompanies, SeedJobs \cup {bare}, 3),
      DB(SeedCompanies, SeedJobs \cup {bare, twin}, 4),
      DB(SeedCompanies, {}, 2)}

InitFind ==
  /\ \E db \in FindSeeds :
       /\ companies = db.companies
       /\ jobs = db.jobs
       /\ jobSeq = db.jobSeq
  /\ op = "init"
  /\ args = <<>>
  /\ out = Return(Undefined)
  /\ sent = <<>>
  /\ trace = <<>>
  /\ steps = 0
  /\ pending = {}
  /\ heap = <<>>

(***************************************************************************)
(* Inputs of the builders.                                                 *)
(***************************************************************************)
\* update maps over the keys K, valuesOf[k] the values tried for key k
UpdateMaps(K, valuesOf) ==
  LET entries == UNION {{[k |-> key, v |-> val] : val \in valuesOf[key]} : key \in K}
  IN {m \in UNION {[1..n -> entries] : n \in 0..MaxUpdateLen} :
        \A i, j \in 1..Len(m) : i # j => m[i].k # m[j].k}

BuilderKeys == {"firstName", "age", "numEmployees", "title", "constructor"}
BuilderValues == [key \in BuilderKeys |-> {Str(<<"Aliya">>), Num(32)}]

Numbers == {Num(n) : n \in -1..MaxNum}
JobCriteria ==
  [title : {Undefined, Str(<<>>), Str(<<"1">>), Str(<<"j">>)},
   minSalary : {Undefined} \cup Numbers,
   hasEquity : {Undefined, Bool(FALSE), Bool(TRUE)}]
CompanyCriteria ==
  [nameLike : {Undefined, Str(<<>>), Str(<<"c">>)},
   minEmployees : {Undefined} \cup Numbers,
   maxEmployees : {Undefined} \cup Numbers]

(***************************************************************************)
(* Calls of the builders on their own: they touch no state but the record  *)
(* of the call.                                                            *)
(***************************************************************************)
Called(name, a, completion) ==
  /\ op' = name
  /\ args' = a
  /\ out' = completion
  /\ sent' = <<>>
  /\ trace' = <<name>>

CallSqlForPartialUpdate ==
  /\ UNCHANGED <<store, steps, pending, heap>>
  /\ \E jsToSql \in {TestJsToSql, CompanyJsToSql, JobJsToSql},
        dataToUpdate \in UpdateMaps(BuilderKeys, BuilderValues) :
       Called("sqlForPartialUpdate",
              [dataToUpdate |-> dataToUpdate, jsToSql |-> jsToSql],
              sqlForPartialUpdate(dataToUpdate, jsToSql))

CallJobWhereClauseBuilder ==
  /\ UNCHANGED <<store, steps, pending, heap>>
  /\ \E c \in JobCriteria :
       Called("Job._whereClauseBuilder", c, JobWhereClauseBuilder(c))

CallCompanyWhereClauseBuilder ==
  /\ UNCHANGED <<store, steps, pending, heap>>
  /\ \E c \in CompanyCriteria :
       Called("Company._whereClauseBuilder", c, CompanyWhereClauseBuilder(c))

NextBuilders ==
  \/ CallSqlForPartialUpdate
  \/ CallJobWhereClauseBuilder
  \/ CallCompanyWhereClauseBuilder

SpecBuilders == InitSeed /\ [][NextBuilders]_vars

\* C1: for a non-empty update map of size n, sqlForPartialUpdate returns
\* setCols made of exactly n predicates joined by ", ", predicate i ending in
\* placeholder $i, and values is the list of the map's n values in key order.
C1_SetClausePlaceholders ==
  (op = "sqlForPartialUpdate" /\ Len(args.dataToUpdate) > 0) =>
    LET n == Len(args.dataToUpdate)
        setCols == Prop(out.value, "setCols")
        values == Prop(out.value, "values")
        preds == Split(setCols.v, ", ")
    IN /\ out.kind = "return"
       /\ setCols.t = "string"
       /\ Len(preds) = n
       /\ \A i \in 1..n : Len(preds[i]) = 4 /\ preds[i][4] = Ph(i)
       /\ values.t = "array"
       /\ Len(values.v) = n
       /\ \A i \in 1..n : values.v[i] = args.dataToUpdate[i].v

\* C1 witness: a two-key map went through the builder
C1_Witness ==
  /\ op = "sqlForPartialUpdate"
  /\ Len(args.dataToUpdate) = 2
  /\ out.kind = "return"
  /\ args.dataToUpdate[1].v # args.dataToUpdate[2].v

NoJobCriterion(c) == ~Truthy(c.title) /\ ~Truthy(c.minSalary) /\ ~Truthy(c.hasEquity)

\* C3: when every job criterion is absent or false, Job._whereClauseBuilder
\* returns an object whose where is the empty string and whose values is the
\* empty list.
C3_JobWhereEmptyShape ==
  (op = "Job._whereClauseBuilder" /\ NoJobCriterion(args)) =>
    /\ out.kind = "return"
    /\ out.value.t = "object"
    /\ Prop(out.value, "where") = Str(<<>>)
    /\ Prop(out.value, "values") = Arr(<<>>)

\* the predicates the truthy keys call for, in the fixed order, numbered 1..k
ExpectedParts(flags, predicates) ==
  LET kept == SelectSeq(<<1, 2, 3>>, LAMBDA i : flags[i])
  IN [j \in 1..Len(kept) |-> <<predicates[kept[j]], Ph(j)>>]

ExpectedValues(flags, bound) ==
  LET kept == SelectSeq(<<1, 2, 3>>, LAMBDA i : flags[i])
  IN [j \in 1..Len(kept) |-> bound[kept[j]]]

\* C4: with at least one truthy job criterion, where is "WHERE " followed by
\* the predicates of the truthy keys in the order title ILIKE, salary >=,
\* equity >, joined by " AND ", numbered $1..$k, and values holds "%title%",
\* minSalary as supplied and 0 for hasEquity, in that order.
C4_JobWhereClause ==
  (op = "Job._whereClauseBuilder" /\ ~NoJobCriterion(args)) =>
    LET flags == <<Truthy(args.title), Truthy(args.minSalary), Truthy(args.hasEquity)>>
        parts == ExpectedParts(flags, <<"title ILIKE ", "salary >= ", "equity > ">>)
        bound == ExpectedValues(flags,
                   <<IF Truthy(args.title)
                       THEN Str(<<"%">> \o args.title.v \o <<"%">>) ELSE Undefined,
                     args.minSalary, Num(0)>>)
    IN /\ out.kind = "return"
       /\ Prop(out.value, "where").t = "string"
       /\ Split(Prop(out.value, "where").v, " AND ")
            = [j \in 1..Len(parts) |->
                 IF j = 1 THEN <<"WHERE ">> \o parts[j] ELSE parts[j]]
       /\ Prop(out.value, "values") = Arr(bound)

\* C4 witness: all three criteria given (the case of models/job.test.js)
C4_Witness ==
  /\ op = "Job._whereClauseBuilder"
  /\ Truthy(args.title) /\ Truthy(args.minSalary) /\ Truthy(args.hasEquity)
  /\ Prop(out.value, "values") = Arr(<<Str(<<"%", "1", "%">>), args.minSalary, Num(0)>>)

Supplied(x) == x.t # "undefined"

\* C5: for every pair of supplied integer bounds with minEmployees >
\* maxEmployees, 0 included, Company._whereClauseBuilder throws
\* BadRequestError.
C5_InvertedBoundsRejected ==
  (/\ op = "Company._whereClauseBuilder"
   /\ Supplied(args.minEmployees) /\ Supplied(args.maxEmployees)
   /\ args.minEmployees.v > args.maxEmployees.v)
    => Threw(out, "BadRequestError")

\* C6: for company criteria whose bounds are not inverted, where is "" and
\* values [] when no key is present, and otherwise where is "WHERE " followed
\* by the predicates of the present keys in the order name ILIKE,
\* num_employees >=, num_employees <=, joined by " AND ", numbered $1..$k,
\* with values "%nameLike%", minEmployees, maxEmployees as supplied.
C6_CompanyWhereClause ==
  (/\ op = "Company._whereClauseBuilder"
   /\ ~(/\ Supplied(args.minEmployees) /\ Supplied(args.maxEmployees)
        /\ args.minEmployees.v > args.maxEmployees.v))
    =>
    LET flags == <<Supplied(args.nameLike), Supplied(args.minEmployees),
                   Supplied(args.maxEmployees)>>
        parts == ExpectedParts(flags,
                   <<"name ILIKE ", "num_employees >= ", "num_employees <= ">>)
        bound == ExpectedValues(flags,
                   <<Str(<<"%">> \o Interpolate(args.nameLike) \o <<"%">>),
                     args.minEmployees, args.maxEmployees>>)
        where == IF Len(parts) = 0 THEN <<>>
                 ELSE <<"WHERE ">> \o Join(parts, " AND ")
    IN /\ out.kind = "return"
       /\ Prop(out.value, "where") = Str(where)
       /\ Prop(out.value, "values") = Arr(bound)

(***************************************************************************)
(* Calls of the repository methods against the store.                      *)
(***************************************************************************)
JobIds == {Num(0), Num(1), Num(2), Num(3)}
Handles == {Str(<<"c1">>), Str(<<"c2">>), Str(<<"nope">>)}

JobUpdateKeys == {"title", "salary", "equity", "companyHandle"}
JobUpdateValues ==
  [title |-> {Str(<<"J", "9">>)}, salary |-> {Num(0)}, equity |-> {Str(<<"0.05">>)},
   companyHandle |-> {Str(<<"c2">>)}]

CompanyUpdateKeys == {"name", "description", "numEmployees", "logoUrl"}
CompanyUpdateValues ==
  [name |-> {Str(<<"N", "9">>)}, description |-> {Str(<<"New">>)},
   numEmployees |-> {Num(0)}, logoUrl |-> {Str(<<"http://new.img">>)}]

NewJobs ==
  {Obj([title |-> Str(<<"n", "3">>), salary |-> Num(2), equity |-> Str(<<"0.5">>),
        companyHandle |-> h]) : h \in {Str(<<"c1">>), Str(<<"nope">>)}}

Current == DB(companies, jobs, jobSeq)

Ran(name, a, done) ==
  /\ steps' = steps + 1
  /\ op' = name
  /\ args' = a
  /\ out' = done.out
  /\ sent' = done.sent
  /\ trace' = <<name>>
  /\ companies' = done.db.companies
  /\ jobs' = done.db.jobs
  /\ jobSeq' = done.db.jobSeq
  /\ UNCHANGED <<pending, heap>>

CallJobCreate ==
  /\ steps < MaxSteps
  /\ \E data \in NewJobs : Ran("Job.create", [data |-> data], JobCreate(Current, data))

CallJobGet ==
  /\ steps < MaxSteps
  /\ \E id \in JobIds : Ran("Job.get", [id |-> id], JobGet(Current, id))

CallJobUpdate ==
  /\ steps < MaxSteps
  /\ \E id \in JobIds, data \in UpdateMaps(JobUpdateKeys, JobUpdateValues) :
       Ran("Job.update", [id |-> id, data |-> data], JobUpdate(Current, id, data))

CallJobRemove ==
  /\ steps < MaxSteps
  /\ \E id \in JobIds : Ran("Job.remove", [id |-> id], JobRemove(Current, id))

CallCompanyGet ==
  /\ steps < MaxSteps
  /\ \E handle \in Handles :
       Ran("Company.get", [handle |-> handle], CompanyGet(Current, handle))

CallCompanyUpdate ==
  /\ steps < MaxSteps
  /\ \E handle \in Handles, data \in UpdateMaps(CompanyUpdateKeys, CompanyUpdateValues) :
       Ran("Company.update", [handle |-> handle, data |-> data],
           CompanyUpdate(Current, handle, data))

CallCompanyRemove ==
  /\ steps < MaxSteps
  /\ \E handle \in Handles :
       Ran("Company.remove", [handle |-> handle], CompanyRemove(Current, handle))

NextRepo ==
  \/ CallJobCreate
  \/ CallJobGet
  \/ CallJobUpdate
  \/ CallJobRemove
  \/ CallCompanyGet
  \/ CallCompanyUpdate
  \/ CallCompanyRemove

SpecRepo == Init /\ [][NextRepo]_vars

(***************************************************************************)
(* Requests to the job routes.                                             *)
(***************************************************************************)
\* res.locals as authenticateJWT leaves it: no user, or the token payload
Users ==
  {Obj([username |-> Str(<<"u1">>), isAdmin |-> Bool(FALSE)]),
   Obj([username |-> Str(<<"u2">>)]),
   Obj([username |-> Str(<<"admin">>), isAdmin |-> Bool(TRUE)])}
Locals == {Obj(<<>>)} \cup {Obj([user |-> u]) : u \in Users}

RouteIds == {Str(<<"0">>), Str(<<"1">>), Str(<<"x">>)}

PatchKeys == {"title", "salary", "id"}
PatchValues == [title |-> {Str(<<"J", "9">>)}, salary |-> {Num(0)}, id |-> {Num(9)}]

PostBodies ==
  {<<>>,
   <<[k |-> "title", v |-> Str(<<"n", "3">>)], [k |-> "salary", v |-> Num(1)],
     [k |-> "equity", v |-> Decimal(<<"0.1">>)],
     [k |-> "companyHandle", v |-> Str(<<"c1">>)]>>,
   <<[k |-> "title", v |-> Str(<<"n", "3">>)],
     [k |-> "companyHandle", v |-> Str(<<"nope">>)]>>}

Served(name, req, done) ==
  /\ steps' = steps + 1
  /\ op' = name
  /\ args' = req
  /\ out' = done.out
  /\ sent' = done.sent
  /\ trace' = done.trace
  /\ companies' = done.db.companies
  /\ jobs' = done.db.jobs
  /\ jobSeq' = done.db.jobSeq
  /\ UNCHANGED <<pending, heap>>

RequestPostJob ==
  /\ steps < MaxSteps
  /\ \E locals \in Locals, body \in PostBodies :
       LET req == [locals |-> locals, params |-> <<>>, body |-> body]
       IN Served("POST /jobs", req, PostJob(Current, req))

RequestPatchJob ==
  /\ steps < MaxSteps
  /\ \E locals \in Locals, id \in RouteIds, body \in UpdateMaps(PatchKeys, PatchValues) :
       LET req == [locals |-> locals, params |-> [id |-> id], body |-> body]
       IN Served("PATCH /jobs/:id", req, PatchJob(Current, req))

RequestDeleteJob ==
  /\ steps < MaxSteps
  /\ \E locals \in Locals, id \in RouteIds :
       LET req == [locals |-> locals, params |-> [id |-> id], body |-> <<>>]
       IN Served("DELETE /jobs/:id", req, DeleteJob(Current, req))

\* routes that name a user: /users/:username
Usernames == {Str(<<"u1">>), Str(<<"u2">>), Str(<<"admin">>), Str(<<"nobody">>)}

\* token payloads whose isAdmin is truthy without being the boolean true
LooseAdmins ==
  {Obj([username |-> Str(<<"u2">>), isAdmin |-> Num(1)]),
   Obj([username |-> Str(<<"u2">>), isAdmin |-> Str(<<"true">>)])}

CallEnsureIsAdminOrEndpointUser ==
  /\ steps < MaxSteps
  /\ \E locals \in Locals \cup {Obj([user |-> u]) : u \in LooseAdmins},
        username \in Usernames :
       LET req == [locals |-> locals, params |-> Obj([username |-> username]),
                   body |-> <<>>]
       IN Served("ensureIsAdminOrEndpointUser", req,
                 Entered(Done(Current, ensureIsAdminOrEndpointUser(locals, req.params),
                              <<>>),
                         <<"ensureIsAdminOrEndpointUser">>))

\* the authorization header of a request: none, a signed token of user u1 or
\* of the admin (with either spelling of Bearer, or bare), an unsigned one,
\* an empty one
RequestHeaders ==
  {Obj(<<>>),
   Obj([authorization |-> Str(<<"Bearer ", "good_u1">>)]),
   Obj([authorization |-> Str(<<"bearer ", "good_admin", " ">>)]),
   Obj([authorization |-> Str(<<"good_u1">>)]),
   Obj([authorization |-> Str(<<"Bearer ", "bad">>)]),
   Obj([authorization |-> Str(<<>>)])}

\* query strings of GET /jobs, as the query parser hands them over
GetQueries ==
  {Obj(<<>>),
   Obj([title |-> Str(<<"1">>)]),
   Obj([minSalary |-> Str(<<"1">>)]),
   Obj([minSalary |-> Str(<<"0">>)]),
   Obj([minSalary |-> Str(<<"one">>)]),
   Obj([minSalary |-> Str(<<>>)]),
   Obj([hasEquity |-> Str(<<"true">>)]),
   Obj([hasEquity |-> Str(<<"false">>)]),
   Obj([title |-> Str(<<"j">>), minSalary |-> Str(<<"2">>), hasEquity |-> Str(<<"true">>)]),
   Obj([badTitle |-> Str(<<"2">>), minSalary |-> Str(<<"one">>),
        hasEquity |-> Str(<<"true">>)])}

CallAuthenticateJWT ==
  /\ steps < MaxSteps
  /\ \E headers \in RequestHeaders \cup {Undefined} :
       LET auth == authenticateJWT(headers, Obj(<<>>))
           req == [headers |-> headers, locals |-> auth.locals]
       IN Served("authenticateJWT", req,
                 Entered(Done(Current, Return(Undefined), <<>>),
                         <<"authenticateJWT">> \o NextMarks(auth.next)))

RequestGetJobs ==
  /\ steps < MaxSteps
  /\ \E headers \in RequestHeaders, query \in GetQueries, tie \in {"asc", "desc"} :
       LET auth == authenticateJWT(headers, Obj(<<>>))
           req == [headers |-> headers, locals |-> auth.locals, query |-> query]
       IN Served("GET /jobs", req,
                 BehindAuthentication(Current, auth, GetJobsHandler(Current, req, tie)))

RequestGetJob ==
  /\ steps < MaxSteps
  /\ \E headers \in RequestHeaders, id \in RouteIds :
       LET auth == authenticateJWT(headers, Obj(<<>>))
           req == [headers |-> headers, locals |-> auth.locals, params |-> [id |-> id]]
       IN Served("GET /jobs/:id", req,
                 BehindAuthentication(Current, auth, GetJobHandler(Current, req)))

NextRoutes ==
  \/ CallAuthenticateJWT
  \/ RequestGetJobs
  \/ RequestGetJob
  \/ RequestPostJob
  \/ RequestPatchJob
  \/ RequestDeleteJob
  \/ CallEnsureIsAdminOrEndpointUser

SpecRoutes == Init /\ [][NextRoutes]_vars

IsUpdate(name) == name \in {"Job.update", "Company.update"}

\* C2: sqlForPartialUpdate throws BadRequestError for an empty update map, so
\* Job.update(id, {}) and Company.update(handle, {}) throw BadRequestError
\* having sent no statement, and the store is as it was.
C2_EmptyUpdateRejected ==
  [][/\ \A jsToSql \in {TestJsToSql, CompanyJsToSql, JobJsToSql} :
          Threw(sqlForPartialUpdate(<<>>, jsToSql), "BadRequestError")
     /\ (IsUpdate(op') /\ Len(args'.data) = 0) =>
          /\ Threw(out', "BadRequestError")
          /\ sent' = <<>>
          /\ store' = store]_vars

\* C2 witness: Job.update(1, {}) was rejected
C2_Witness ==
  /\ op = "Job.update"
  /\ args.id = Num(1)
  /\ Len(args.data) = 0
  /\ Threw(out, "BadRequestError")

\* the placeholder chunks of a text, in order of appearance
PlaceholdersOf(text) ==
  SelectSeq(text, LAMBDA chunk : \E i \in 0..Len(text) : chunk = Ph(i))

UpdateKey == IF op = "Job.update" THEN args.id ELSE args.handle
UpdateWhere == IF op = "Job.update" THEN SqlJobUpdateWhere ELSE SqlCompanyUpdateWhere

\* C7: in Company.update and Job.update with n fields, the key is bound to
\* placeholder $(n+1) and is the last of the n+1 bound values; the placeholders
\* of the statement are exactly $1..$(n+1), one value each, and no SET
\* placeholder is the key's.
C7_KeyPlaceholder ==
  (IsUpdate(op) /\ Len(args.data) > 0) =>
    LET n == Len(args.data)
        text == sent[1].text
        params == sent[1].params
        w == IndexOf(text, UpdateWhere)
    IN /\ Len(sent) = 1
       /\ w > 0
       /\ text[w + 1] = Ph(n + 1)
       /\ params.t = "array"
       /\ Len(params.v) = n + 1
       /\ params.v[n + 1] = UpdateKey
       /\ \A i \in 1..n : params.v[i] = args.data[i].v
       /\ PlaceholdersOf(text) = [i \in 1..(n + 1) |-> Ph(i)]
       /\ \A k \in 1..(w - 1) : text[k] # text[w + 1]

\* C7 witness: a two-field Company.update went through
C7_Witness ==
  /\ op = "Company.update"
  /\ Len(args.data) = 2
  /\ out.kind = "return"
  /\ Len(sent[1].params.v) = 3

\* the column each update key stands for
JobFieldColumn ==
  [title |-> "title", salary |-> "salary", equity |-> "equity",
   companyHandle |-> "company_handle"]
CompanyFieldColumn ==
  [name |-> "name", description |-> "description",
   numEmployees |-> "num_employees", logoUrl |-> "logo_url"]

\* `after` is `before` with exactly the fields of data set to their values
PartiallyUpdated(before, after, data, column) ==
  /\ \A i \in 1..Len(data) : after[column[data[i].k]] = data[i].v
  /\ \A col \in DOMAIN before :
       (\A i \in 1..Len(data) : column[data[i].k] # col) => after[col] = before[col]

\* C8: a successful Job.update / Company.update changes, in the row with the
\* key, exactly the fields named in data to the supplied values, leaves the
\* other fields and all other rows as they were, and returns the stored row.
C8_PartialUpdateFrame ==
  [][/\ (op' = "Job.update" /\ out'.kind = "return") =>
          \E before \in jobs, after \in jobs' :
            /\ before.id = args'.id /\ after.id = args'.id
            /\ PartiallyUpdated(before, after, args'.data, JobFieldColumn)
            /\ jobs' \ {after} = jobs \ {before}
            /\ companies' = companies
            /\ out'.value = Obj([id |-> after.id, title |-> after.title,
                                 salary |-> after.salary, equity |-> after.equity,
                                 companyHandle |-> after.company_handle])
     /\ (op' = "Company.update" /\ out'.kind = "return") =>
          \E before \in companies, after \in companies' :
            /\ before.handle = args'.handle /\ after.handle = args'.handle
            /\ PartiallyUpdated(before, after, args'.data, CompanyFieldColumn)
            /\ companies' \ {after} = companies \ {before}
            /\ jobs' = jobs
            /\ out'.value = Obj([handle |-> after.handle, name |-> after.name,
                                 description |-> after.description,
                                 numEmployees |-> after.num_employees,
                                 logoUrl |-> after.logo_url])]_vars

\* C8 witness: Job.update(1, {title, salary}) stored both and kept the equity
C8_Witness ==
  /\ op = "Job.update"
  /\ out.kind = "return"
  /\ Keys(args.data) = <<"title", "salary">>
  /\ \E r \in jobs :
       /\ r.id = Num(1)
       /\ r.title = Str(<<"J", "9">>)
       /\ r.salary = Num(0)
       /\ r.equity = Str(<<"0.01">>)

\* C9: Job.get, Job.update (non-empty data) and Job.remove with an id that
\* matches no job throw NotFoundError and leave the store as it was; so do
\* Company.get, Company.update and Company.remove with an unknown handle.
C9_UnknownKeyNotFound ==
  [][/\ (/\ op' \in {"Job.get", "Job.update", "Job.remove"}
         /\ op' = "Job.update" => Len(args'.data) > 0
         /\ \A j \in jobs : j.id # args'.id)
          => (Threw(out', "NotFoundError") /\ store' = store)
     /\ (/\ op' \in {"Company.get", "Company.update", "Company.remove"}
         /\ op' = "Company.update" => Len(args'.data) > 0
         /\ \A c \in companies : c.handle # args'.handle)
          => (Threw(out', "NotFoundError") /\ store' = store)]_vars

\* C9 witness: Job.remove(0) found no job
C9_Witness ==
  /\ op = "Job.remove"
  /\ args.id = Num(0)
  /\ Threw(out, "NotFoundError")
  /\ Len(sent) = 1

GuardedRoute(name) == name \in {"POST /jobs", "PATCH /jobs/:id", "DELETE /jobs/:id"}
RepositoryCalls(names) ==
  {i \in 1..Len(names) : names[i] \in {"Job.create", "Job.update", "Job.remove"}}

\* C10: on POST /jobs, PATCH /jobs/:id and DELETE /jobs/:id a request with no
\* user is answered 401 and one from a logged-in non-admin 403, in both cases
\* without Job.create / Job.update / Job.remove being called and with the
\* store unchanged; the repository method runs only after ensureLoggedIn and
\* ensureIsAdmin have both passed.
C10_AdminOnlyJobWrites ==
  [][GuardedRoute(op') =>
       LET user == Prop(args'.locals, "user")
       IN /\ ~Truthy(user) =>
               /\ out'.status = 401
               /\ RepositoryCalls(trace') = {}
               /\ sent' = <<>>
               /\ store' = store
          /\ (Truthy(user) /\ ~Truthy(Prop(user, "isAdmin"))) =>
               /\ out'.status = 403
               /\ RepositoryCalls(trace') = {}
               /\ sent' = <<>>
               /\ store' = store
          /\ \A i \in RepositoryCalls(trace') :
               /\ \E k \in 1..(i - 1) : trace'[k] = "ensureLoggedIn"
               /\ \E k \in 1..(i - 1) : trace'[k] = "ensureIsAdmin"
               /\ Truthy(Prop(args'.locals, "user"))
               /\ Truthy(Prop(Prop(args'.locals, "user"), "isAdmin"))]_vars

\* C10 witness: a logged-in non-admin was refused a PATCH with 403 at
\* ensureIsAdmin
C10_Witness ==
  /\ op = "PATCH /jobs/:id"
  /\ Truthy(Prop(args.locals, "user"))
  /\ ~Truthy(Prop(Prop(args.locals, "user"), "isAdmin"))
  /\ Len(args.body) > 0
  /\ out.status = 403
  /\ trace = <<"ensureLoggedIn", "ensureIsAdmin">>

\* C11: when the requester is neither an admin nor the user the route's
\* username parameter names, ensureIsAdminOrEndpointUser raises
\* UnauthorizedError and does not call next; when the requester is an admin or
\* that same user it calls next with no error.
C11_AdminOrSelf ==
  op = "ensureIsAdminOrEndpointUser" =>
    LET user == Prop(args.locals, "user")
        self == Truthy(user) /\ Prop(user, "username") = Prop(args.params, "username")
        admin == Truthy(user) /\ Prop(user, "isAdmin") = Bool(TRUE)
    IN IF self \/ admin THEN out = Return(Undefined)
       ELSE Threw(out, "UnauthorizedError")

(***************************************************************************)
(* Calls of the list and create methods of the repositories.               *)
(***************************************************************************)
FindQueries ==
  {Obj(c) : c \in [title : {Undefined, Str(<<>>), Str(<<"1">>), Str(<<"x">>), Str(<<"_">>)},
                    minSalary : {Undefined} \cup Numbers,
                    hasEquity : {Undefined, Bool(FALSE), Bool(TRUE)}]}

CallJobFindAll ==
  /\ steps < MaxSteps
  /\ \E query \in FindQueries, tie \in {"asc", "desc"} :
       Ran("Job.findAll", [query |-> query], JobFindAll(Current, query, tie))

NewCompanies ==
  {Obj([handle |-> Str(<<"c1">>), name |-> Str(<<"N", "9">>),
        description |-> Str(<<"New">>), numEmployees |-> Num(1),
        logoUrl |-> Str(<<"http://new.img">>)]),
   Obj([handle |-> Str(<<"new">>), name |-> Str(<<"N", "9">>),
        description |-> Str(<<"New">>), numEmployees |-> Num(1),
        logoUrl |-> Str(<<"http://new.img">>)]),
   Obj([handle |-> Str(<<"new">>), name |-> Str(<<"X">>),
        description |-> Str(<<"Other">>), numEmployees |-> Num(0),
        logoUrl |-> Undefined])}

\* a call of Company.create runs to its first await; a duplicate ends it
StartCompanyCreate ==
  /\ steps < MaxCreates
  /\ \E data \in NewCompanies :
       LET check == CompanyCreateCheck(Current, data)
       IN /\ steps' = steps + 1
          /\ args' = [data |-> data]
          /\ sent' = check.sent
          /\ trace' = <<"Company.create">>
          /\ UNCHANGED <<store, heap>>
          /\ IF check.out.kind = "throw"
               THEN op' = "Company.create" /\ out' = check.out /\ UNCHANGED pending
               ELSE /\ op' = "Company.create awaits"
                    /\ out' = check.out
                    /\ pending' = pending \cup {[call |-> steps + 1, data |-> data,
                                                  sent |-> check.sent]}

\* a waiting call of Company.create sends its INSERT and completes
FinishCompanyCreate ==
  /\ pending # {}
  /\ \E p \in pending :
       LET done == CompanyCreateInsert(Current, p.data)
       IN /\ op' = "Company.create"
          /\ args' = [data |-> p.data]
          /\ out' = done.out
          /\ sent' = p.sent \o done.sent
          /\ trace' = <<"Company.create">>
          /\ companies' = done.db.companies
          /\ jobs' = done.db.jobs
          /\ jobSeq' = done.db.jobSeq
          /\ pending' = pending \ {p}
          /\ UNCHANGED <<steps, heap>>

NextFindCreate ==
  \/ CallJobFindAll
  \/ StartCompanyCreate
  \/ FinishCompanyCreate

SpecFindCreate == InitFind /\ [][NextFindCreate]_vars

\* text contains sub, letters compared without regard to case
Contains(text, sub) ==
  \E i \in 0..(Len(text) - Len(sub)) :
    \A k \in 1..Len(sub) : Lower(text[i + k]) = Lower(sub[k])

\* the row satisfies every criterion the query supplies
Satisfies(row, query) ==
  /\ Prop(query, "title") # Undefined => Contains(row.title.v, Prop(query, "title").v)
  /\ Prop(query, "minSalary") # Undefined =>
       row.salary.t = "number" /\ row.salary.v >= Prop(query, "minSalary").v
  /\ Prop(query, "hasEquity") = Bool(TRUE) => PositiveNumeric(row.equity)

\* C13: for every combination of job criteria, none included, Job.findAll
\* returns exactly the stored jobs that satisfy every supplied criterion
\* (title contains the text in either case, salary >= minSalary, equity > 0
\* when hasEquity is true), each once, ordered by title.
C13_FindAllExact ==
  op = "Job.findAll" =>
    /\ out.kind = "return"
    /\ out.value.t = "array"
    /\ {out.value.v[i] : i \in 1..Len(out.value.v)}
         = {JobOut(r) : r \in {x \in jobs : Satisfies(x, args.query)}}
    /\ \A i, k \in 1..Len(out.value.v) :
         i < k => /\ out.value.v[i] # out.value.v[k]
                  /\ ~TitleLess(Prop(out.value.v[k], "title").v,
                                Prop(out.value.v[i], "title").v)

\* the companies row Company.create inserts for data
CreatedRow(data) ==
  CompanyRow(Prop(data, "handle"), Prop(data, "name"), Prop(data, "description"),
             Prop(data, "numEmployees"), Prop(data, "logoUrl"))

\* C14: a call of Company.create completing while its handle is in the
\* companies table fails with BadRequestError and leaves the table as it
\* was; completing with a handle the table does not have, it inserts exactly
\* that one row and returns it.
C14_CreateDuplicate ==
  [][op' = "Company.create" =>
       IF \E c \in companies : c.handle = Prop(args'.data, "handle")
         THEN Threw(out', "BadRequestError") /\ companies' = companies
         ELSE /\ companies' = companies \cup {CreatedRow(args'.data)}
              /\ CreatedRow(args'.data) \notin companies
              /\ out' = Return(CompanyOut(CreatedRow(args'.data)))]_vars

\* the requests whose authorization header carries a token signed with the key
SignedHeader(headers) ==
  /\ Truthy(headers)
  /\ Prop(headers, "authorization").t = "string"
  /\ Prop(headers, "authorization").v \in
       {<<"Bearer ", "good_u1">>, <<"bearer ", "good_admin", " ">>, <<"good_u1">>}

Count(marks, mark) == Len(SelectSeq(marks, LAMBDA m : m = mark))

\* C12: authenticateJWT never produces an error: with no authorization
\* header, with a token that fails verification and with a valid token it
\* calls next exactly once and without an error argument, and res.locals.user
\* is set if and only if a token was provided and verified; so GET /jobs
\* (with a query the filter schema accepts) and GET /jobs/:id (of a stored
\* job) succeed for anonymous callers.
C12_AuthenticateNeverFails ==
  op \in {"authenticateJWT", "GET /jobs", "GET /jobs/:id"} =>
    /\ Count(trace, "next()") = 1
    /\ Count(trace, "next(err)") = 0
    /\ ("user" \in DOMAIN args.locals.v) <=> SignedHeader(args.headers)
    /\ (op = "GET /jobs" /\ ~SignedHeader(args.headers)
          /\ FilterViolations(ConvertedQuery(args.query)) = <<>>) =>
         /\ out.status = 200
         /\ Prop(out.body, "jobs").t = "array"
    /\ (op = "GET /jobs/:id" /\ ~SignedHeader(args.headers)) =>
         \A j \in jobs :
           (IsIntLike(args.params.id) /\ AsInt(args.params.id) = j.id) =>
             out.status = 200 /\ Prop(out.body, "job") = JobOut(j)

\* C12 witness: an anonymous GET /jobs carrying a token that fails
\* verification went through to the handler and was answered with the jobs
C12_Witness ==
  /\ op = "GET /jobs"
  /\ Prop(args.headers, "authorization") = Str(<<"Bearer ", "bad">>)
  /\ "user" \notin DOMAIN args.locals.v
  /\ trace = <<"authenticateJWT", "next()", "handler", "Job.findAll">>
  /\ out.status = 200
  /\ Len(Prop(out.body, "jobs").v) = 2

\* C19: a GET /jobs whose query fails the filter schema (a key the schema
\* does not know, a minSalary that is not an integer) is answered with status
\* 400 and an error body that carries the list of the violation messages, and
\* Job.findAll is not called for it.
C19_InvalidFilterRejected ==
  (op = "GET /jobs" /\ \/ DOMAIN args.query.v \ {"title", "minSalary", "hasEquity"} # {}
                       \/ /\ "minSalary" \in DOMAIN args.query.v
                          /\ ~IsIntLike(Prop(args.query, "minSalary"))) =>
    LET error == Prop(out.body, "error")
    IN /\ out.status = 400
       /\ Prop(error, "status") = Num(400)
       /\ Prop(error, "message").t = "array"
       /\ Len(Prop(error, "message").v) > 0
       /\ \A i \in 1..Len(Prop(error, "message").v) :
            Prop(error, "message").v[i].t = "string"
       /\ Count(trace, "Job.findAll") = 0
       /\ sent = <<>>

\* C19 witness: the request of the route test, { badTitle: "2", minSalary:
\* "one", hasEquity: "true" }, was answered 400 with two messages
C19_Witness ==
  /\ op = "GET /jobs"
  /\ "badTitle" \in DOMAIN args.query.v
  /\ out.status = 400
  /\ Len(Prop(Prop(out.body, "error"), "message").v) = 2
  /\ trace = <<"authenticateJWT", "next()", "handler">>

\* C20: DELETE /jobs/:id by an admin for a stored job is answered with status
\* 200 and a body { deleted: id } whose deleted value is a number.
C20_DeletedIsNumber ==
  [][(/\ op' = "DELETE /jobs/:id"
      /\ StrictEq(Prop(Prop(args'.locals, "user"), "isAdmin"), Bool(TRUE))
      /\ IsIntLike(args'.params.id)
      /\ \E j \in jobs : j.id = AsInt(args'.params.id)) =>
       /\ out'.status = 200
       /\ DOMAIN out'.body.v = {"deleted"}
       /\ Prop(out'.body, "deleted").t = "number"]_vars

\* C17: for every key of the update map, sqlForPartialUpdate uses the column
\* name the translation table gives when the key has an entry there and the
\* key itself otherwise, and wraps it in double quotes: "<column>"=$<n>.
C17_ColumnNames ==
  (op = "sqlForPartialUpdate" /\ out.kind = "return") =>
    LET preds == Split(Prop(out.value, "setCols").v, ", ")
    IN \A i \in 1..Len(args.dataToUpdate) :
         LET key == args.dataToUpdate[i].k
             column == IF key \in DOMAIN args.jsToSql THEN args.jsToSql[key] ELSE key
         IN preds[i] = <<"\"", column, "\"=", Ph(i)>>

\* the criteria of a record that are truthy
TruthyKeys(c) == {key \in DOMAIN c : Truthy(c[key])}

\* C16: no caller-supplied value appears in the clause text: a successful
\* call of a filter builder returns the where text that any other successful
\* call with the same set of truthy keys and other values returns, and a call
\* of sqlForPartialUpdate the setCols that any call with the same key
\* sequence and other values returns; the values are in the bound-value list
\* only.
C16_ValuesNotInText ==
  /\ (op = "Job._whereClauseBuilder" /\ out.kind = "return") =>
       \A c \in JobCriteria :
         (TruthyKeys(c) = TruthyKeys(args) /\ JobWhereClauseBuilder(c).kind = "return") =>
           Prop(JobWhereClauseBuilder(c).value, "where") = Prop(out.value, "where")
  /\ (op = "Company._whereClauseBuilder" /\ out.kind = "return") =>
       \A c \in CompanyCriteria :
         (TruthyKeys(c) = TruthyKeys(args)
            /\ CompanyWhereClauseBuilder(c).kind = "return") =>
           Prop(CompanyWhereClauseBuilder(c).value, "where") = Prop(out.value, "where")
  /\ (op = "sqlForPartialUpdate" /\ out.kind = "return") =>
       \A data \in UpdateMaps(BuilderKeys, BuilderValues) :
         Keys(data) = Keys(args.dataToUpdate) =>
           Prop(sqlForPartialUpdate(data, args.jsToSql).value, "setCols")
             = Prop(out.value, "setCols")

\* C16 witness: a job filter with a search text and a salary bound was
\* built, and another salary bound with the same truthy keys exists
C16_Witness ==
  /\ op = "Job._whereClauseBuilder"
  /\ out.kind = "return"
  /\ TruthyKeys(args) = {"title", "minSalary"}
  /\ \E c \in JobCriteria :
       TruthyKeys(c) = TruthyKeys(args) /\ c.minSalary # args.minSalary
  /\ Len(Prop(out.value, "values").v) = 2

(***************************************************************************)
(* Callers of the builders.  A caller keeps the objects it passes (the     *)
(* update map and translation table, or the criteria object, whose keys    *)
(* are in the order the caller wrote them) and may pass them again; calls  *)
(* of different requests follow one another in any order.  heap.given is   *)
(* what the caller first made, heap.now what the objects hold now.         *)
(***************************************************************************)
\* objects over the keys K with their keys in any order
CriteriaMaps(K, valuesOf) ==
  LET entries == UNION {{[k |-> key, v |-> val] : val \in valuesOf[key]} : key \in K}
  IN {m \in UNION {[1..n -> entries] : n \in 0..Cardinality(K)} :
        \A i, j \in 1..Len(m) : i # j => m[i].k # m[j].k}

JobQueryValues ==
  [title |-> {Str(<<"1">>)}, minSalary |-> {Num(0), Num(MaxNum)},
   hasEquity |-> {Bool(FALSE), Bool(TRUE)}]
CompanyQueryValues ==
  [nameLike |-> {Str(<<"c">>)}, minEmployees |-> {Num(n) : n \in 0..MaxNum},
   maxEmployees |-> {Num(n) : n \in 0..MaxNum}]

JobParameters == <<"title", "minSalary", "hasEquity">>
CompanyParameters == <<"nameLike", "minEmployees", "maxEmployees">>

\* mutant: the parameters take the values in the order the caller wrote them
Destructured_positional(object, names) ==
  [name \in {names[i] : i \in 1..Len(names)} |->
     LET at == CHOOSE i \in 1..Len(names) : names[i] = name
     IN IF at <= Len(object) THEN object[at].v ELSE Undefined]

\* the parameter list ({ a, b, c }) applied to an object: each name takes the
\* object's property of that name, undefined when there is none
Destructured(object, names) ==
  [name \in {names[i] : i \in 1..Len(names)} |->
     IF \E i \in 1..Len(object) : object[i].k = name
       THEN (CHOOSE e \in {object[i] : i \in 1..Len(object)} : e.k = name).v
       ELSE Undefined]

\* mutant: the keys of the update map are renamed to the column names in place
LeftBySqlForPartialUpdate_renamed(objects) ==
  [objects EXCEPT !.dataToUpdate =
     [i \in 1..Len(@) |-> [k |-> ColumnName(objects.jsToSql, @[i].k), v |-> @[i].v]]]

\* the caller's objects after sqlForPartialUpdate: it reads them (Object.keys,
\* map, Object.values) and assigns to none
LeftBySqlForPartialUpdate(objects) == objects

\* the caller's object after a filter builder: the parameters are copies of
\* its properties, the lists the builder pushes to are its own
LeftByWhereClauseBuilder(objects) == objects

CallerObjects ==
  {[kind |-> "update", dataToUpdate |-> data, jsToSql |-> table] :
     data \in UpdateMaps({"firstName", "age", "numEmployees"}, BuilderValues),
     table \in {TestJsToSql, CompanyJsToSql}}
  \cup {[kind |-> "job", query |-> q] : q \in CriteriaMaps(DOMAIN JobQueryValues,
                                                           JobQueryValues)}
  \cup {[kind |-> "company", query |-> q] :
          q \in CriteriaMaps(DOMAIN CompanyQueryValues, CompanyQueryValues)}

InitCallers ==
  /\ companies = SeedCompanies
  /\ jobs = SeedJobs
  /\ jobSeq = 2
  /\ op = "init"
  /\ args = <<>>
  /\ out = Return(Undefined)
  /\ sent = <<>>
  /\ trace = <<>>
  /\ steps = 0
  /\ pending = {}
  /\ \E objects \in CallerObjects : heap = [given |-> objects, now |-> objects]

CalledWith(name, a, completion, left) ==
  /\ op' = name
  /\ args' = a
  /\ out' = completion
  /\ sent' = <<>>
  /\ trace' = <<name>>
  /\ heap' = [heap EXCEPT !.now = left]
  /\ UNCHANGED <<store, steps, pending>>

CallerSqlForPartialUpdate ==
  /\ heap.now.kind = "update"
  /\ CalledWith("sqlForPartialUpdate",
                [dataToUpdate |-> heap.now.dataToUpdate, jsToSql |-> heap.now.jsToSql],
                sqlForPartialUpdate(heap.now.dataToUpdate, heap.now.jsToSql),
                LeftBySqlForPartialUpdate(heap.now))

CallerJobWhereClauseBuilder ==
  /\ heap.now.kind = "job"
  /\ CalledWith("Job._whereClauseBuilder", [query |-> heap.now.query],
                JobWhereClauseBuilder(Destructured(heap.now.query, JobParameters)),
                LeftByWhereClauseBuilder(heap.now))

CallerCompanyWhereClauseBuilder ==
  /\ heap.now.kind = "company"
  /\ CalledWith("Company._whereClauseBuilder", [query |-> heap.now.query],
                CompanyWhereClauseBuilder(Destructured(heap.now.query,
                                                       CompanyParameters)),
                LeftByWhereClauseBuilder(heap.now))

NextCallers ==
  \/ CallerSqlForPartialUpdate
  \/ CallerJobWhereClauseBuilder
  \/ CallerCompanyWhereClauseBuilder

SpecCallers == InitCallers /\ [][NextCallers]_vars

\* the two objects have the same keys with the same values
SameProperties(a, b) == {a[i] : i \in 1..Len(a)} = {b[i] : i \in 1..Len(b)}

Alone(objects) ==
  CASE objects.kind = "update" ->
         sqlForPartialUpdate(objects.dataToUpdate, objects.jsToSql)
    [] objects.kind = "job" ->
         JobWhereClauseBuilder(Destructured(objects.query, JobParameters))
    [] objects.kind = "company" ->
         CompanyWhereClauseBuilder(Destructured(objects.query, CompanyParameters))

C21_RemoveExactlyOne ==
  [][(op' = "Job.remove" /\ out'.kind = "return") =>
       /\ \E j \in jobs : j.id = args'.id
       /\ \A j \in jobs' : j.id # args'.id
       /\ jobs' = {j \in jobs : j.id # args'.id}
       /\ companies' = companies
       /\ JobGet(DB(companies', jobs', jobSeq'), args'.id).out = Throw("NotFoundError")
       /\ out'.value = Undefined]_vars

\* C21 witness: Job.remove(2) returned and job 1 is still stored
C21_Witness ==
  /\ op = "Job.remove"
  /\ out = Return(Undefined)
  /\ args.id = Num(2)
  /\ \E j \in jobs : j.id = Num(1)
  /\ \A j \in jobs : j.id # Num(2)

\* C22: when calls of Company.create for the same handle interleave, the
\* companies table never holds two rows with one handle, and every call that
\* completes either returns the row it inserted or fails with
\* BadRequestError, never with an error of the store.
C22_InterleavedCreate ==
  /\ \A c1, c2 \in companies : c1.handle = c2.handle => c1 = c2
  /\ op = "Company.create" => (out.kind = "return" \/ Threw(out, "BadRequestError"))

\* C23: ensureIsAdmin and ensureIsAdminOrEndpointUser agree on who is an
\* admin: whenever ensureIsAdmin lets the user of a request through,
\* ensureIsAdminOrEndpointUser lets that user through too, whatever username
\* the route names.
C23_AdminAgreement ==
  op = "ensureIsAdminOrEndpointUser" =>
    (ensureIsAdmin(args.locals) = Return(Undefined) => out = Return(Undefined))

\* C24: Job.update changes only title, salary and equity: across every call
\* of Job.update the stored jobs keep their ids, and each job keeps the
\* company_handle it had before the call.
C24_UpdateKeepsIdAndCompany ==
  [][op' = "Job.update" =>
       /\ {j.id : j \in jobs'} = {j.id : j \in jobs}
       /\ \A b \in jobs : \E a \in jobs' :
            a.id = b.id /\ a.company_handle = b.company_handle]_vars

====
